---- MODULE Spec2Model ----
(***************************************************************************)
(* Model of the plan generation workflow of the Virtual Coach backend      *)
(* (src/main.py, src/schemas.py): the date resolver get_next_monday, the   *)
(* level lookup get_user_levels and the handler generate_plan with its     *)
(* storage calls, oracle call, reply parsing, schema validation and        *)
(* compensating delete, and the retrieval handler get_weekly_plan.         *)
(*                                                                         *)
(* Dates are proleptic Gregorian ordinals as in datetime.date.toordinal(): *)
(* ordinal 1 is 0001-01-01, a Monday.  Every call on the storage client    *)
(* and on the generative model is one step of a request; a request is run  *)
(* by a worker, and workers interleave at these calls.                     *)
(***************************************************************************)
EXTENDS Integers, Sequences, FiniteSets, TLC

VARIABLES
    today,        \* date.today()
    plans,        \* rows of table 'plans'
    workouts,     \* rows of table 'workouts'
    segments,     \* rows of table 'workout_segments'
    nextId,       \* per worker: how many row identifiers the store generated for it
    req,          \* per worker: the locals of the request it runs
    faults,       \* storage calls that failed and requests that were cancelled so far
    started,      \* requests started so far
    hist,         \* per worker: what the running request has done (history)
    planSeen,     \* per plan id: the Plan rows its request's existence check saw (history)
    completed,    \* the plans whose request returned 200: id and validated plan (history)
    dr,           \* the date resolver called on its own: [in, today, out]
    oc            \* the reply processing of step 5 on its own: [in, called, out]

vars == <<today, plans, workouts, segments, nextId, req, faults, started,
          hist, planSeen, completed, dr, oc>>

-----------------------------------------------------------------------------
(* Bounds *)

MaxDate == 21        \* the date resolver is checked on ordinals 1..MaxDate
MaxWorkouts == 8     \* longest workouts list the oracle returns
MaxFaults == 2       \* storage calls that may fail, or requests be cancelled, in one behaviour
MaxRequests == 2     \* requests started in one behaviour

-----------------------------------------------------------------------------
(* Values *)

NoDate == 0          \* week_start_date: Optional[date] = None
NoId == <<>>         \* new_plan_id = None
None == "None"       \* an absent string

WeekDays == 7

Workers == {"w1", "w2"}
SeqWorkers == {"w1"}
Users == {"alice", "carol", "dave"}

\* table 'fitness_assessments': alice and bob are assessed, carol's row lacks
\* the swim level, dave has no row
Assessments ==
    {[user_id |-> "alice", swim_level |-> "Beginner", run_level |-> "Advanced"],
     [user_id |-> "bob", swim_level |-> "Intermediate", run_level |-> "Beginner"],
     [user_id |-> "carol", swim_level |-> None, run_level |-> "Beginner"]}

\* the week_start_date values requests carry: none, two Mondays, a Wednesday
GivenDates == {NoDate, 8, 15, 10}
TodayDates == {3}

\* what the requests of interleaved workers carry
ConcUsers == {"alice", "bob"}
ConcDates == {NoDate}

-----------------------------------------------------------------------------
(* Date resolver *)

\* date.weekday(): 0 is Monday
weekday(d) == (d + 6) % 7

\* HTTPException(status_code, detail): the detail is kept as the error's name
HTTPException(code, err) == [code |-> code, err |-> err]
NoResponse == HTTPException(0, None)
Success == HTTPException(200, "OK")

\* get_next_monday with the weekday test of line 22 written for Sunday
get_next_monday_sunday(start_date, td) ==
    IF start_date # NoDate /\ weekday(start_date) # 6
    THEN [ok |-> FALSE, value |-> NoDate,
          exc |-> HTTPException(400, "InvalidInput")]
    ELSE IF start_date = NoDate
         THEN LET days_ahead == 0 - weekday(td)
                  ahead == IF days_ahead <= 0 THEN days_ahead + 7 ELSE days_ahead
              IN [ok |-> TRUE, value |-> td + ahead, exc |-> NoResponse]
         ELSE [ok |-> TRUE, value |-> start_date, exc |-> NoResponse]

\* get_next_monday with the test of line 27 written days_ahead < 0
get_next_monday_today(start_date, td) ==
    IF start_date # NoDate /\ weekday(start_date) # 0
    THEN [ok |-> FALSE, value |-> NoDate,
          exc |-> HTTPException(400, "InvalidInput")]
    ELSE IF start_date = NoDate
         THEN LET days_ahead == 0 - weekday(td)
                  ahead == IF days_ahead < 0 THEN days_ahead + 7 ELSE days_ahead
              IN [ok |-> TRUE, value |-> td + ahead, exc |-> NoResponse]
         ELSE [ok |-> TRUE, value |-> start_date, exc |-> NoResponse]

\* get_next_monday(start_date) evaluated when date.today() is td:
\* [ok |-> FALSE, exc] when it raises, [ok |-> TRUE, value] when it returns
get_next_monday(start_date, td) ==
    IF start_date # NoDate /\ weekday(start_date) # 0
    THEN [ok |-> FALSE, value |-> NoDate,
          exc |-> HTTPException(400, "InvalidInput")]
    ELSE IF start_date = NoDate
         THEN LET days_ahead == 0 - weekday(td)
                  ahead == IF days_ahead <= 0 THEN days_ahead + 7 ELSE days_ahead
              IN [ok |-> TRUE, value |-> td + ahead, exc |-> NoResponse]
         ELSE [ok |-> TRUE, value |-> start_date, exc |-> NoResponse]

NoResult == [ok |-> FALSE, value |-> NoDate, exc |-> NoResponse]

-----------------------------------------------------------------------------
(* The oracle's reply: text, JSON values and the schema of src/schemas.py *)

NoInt == -1          \* an Optional[int] that is None

\* a segment object of the reply: has_order is FALSE when the required key
\* segment_order is missing
JSegment(has_order, order, type, minutes, meters, intensity, reps, rest, notes) ==
    [has_order |-> has_order, segment_order |-> order, segment_type |-> type,
     duration_minutes |-> minutes, distance_meters |-> meters,
     target_intensity |-> intensity, exercise_name |-> None, reps |-> reps,
     rest_duration_seconds |-> rest, notes |-> notes]

WarmUp(order) == JSegment(TRUE, order, "WarmUp", 10, NoInt, "Easy", NoInt, NoInt, "Light jog")
MainSet(order) == JSegment(TRUE, order, "MainSet", NoInt, 400, "Tempo", 4, 30, None)
CoolDown(order) == JSegment(TRUE, order, "CoolDown", 5, NoInt, "Easy", NoInt, NoInt, None)
Unordered == JSegment(FALSE, NoInt, "Drill", 5, NoInt, None, NoInt, NoInt, None)

\* the value of key "segments": null, or a list of segment objects
JNullSegments == [null |-> TRUE, items |-> <<>>]
JSegments(items) == [null |-> FALSE, items |-> items]

\* a workout object of the reply: has_day_index is FALSE when the required key
\* day_index is missing
JWorkout(has_day_index, day_index, activity_type, title, segs) ==
    [has_day_index |-> has_day_index, day_index |-> day_index,
     activity_type |-> activity_type, title |-> title, segments |-> segs]

\* the plan the prompt asks for, cut or continued to n workouts: a run with two
\* segments, a rest day, a swim with three segments, a rest day, and so on
CleanWorkout(i) ==
    CASE i % 4 = 0 -> JWorkout(TRUE, i, "Running", "Easy Run",
                               JSegments(<<WarmUp(1), MainSet(2)>>))
      [] i % 4 = 2 -> JWorkout(TRUE, i, "Swimming", "Drills",
                               JSegments(<<WarmUp(1), MainSet(2), CoolDown(3)>>))
      [] OTHER     -> JWorkout(TRUE, i, "Rest", None, JNullSegments)

\* a plan that satisfies the schema but not the prompt: a Rest day with
\* segments, an empty segment list, repeated and unsorted segment_order values,
\* day_index values that disagree with the position
MessyWorkout(i) ==
    CASE i = 0 -> JWorkout(TRUE, 0, "Rest", "Recovery", JSegments(<<WarmUp(1)>>))
      [] i = 1 -> JWorkout(TRUE, 1, "Running", "Empty", JSegments(<<>>))
      [] i = 2 -> JWorkout(TRUE, 5, "Swimming", "Repeats",
                           JSegments(<<MainSet(2), CoolDown(2)>>))
      [] i = 3 -> JWorkout(TRUE, 3, "Running", "Backwards",
                           JSegments(<<CoolDown(3), WarmUp(0)>>))
      [] OTHER -> JWorkout(TRUE, (i + 1) % WeekDays, "Rest", None, JNullSegments)

CleanList(n) == [i \in 1..n |-> CleanWorkout(i - 1)]
MessyList(n) == [i \in 1..n |-> MessyWorkout(i - 1)]

\* JSON values: null, an array, or an object that may hold the key "workouts"
JNull == [kind |-> "null"]
JArray(items) == [kind |-> "array", items |-> items]
JObject(has_workouts, value) ==
    [kind |-> "object", has_workouts |-> has_workouts, workouts |-> value]

\* the reply text as a sequence of tokens
Ws == [t |-> "ws", v |-> JNull]
\* the markers that open and close a Markdown code fence
FenceJson == [t |-> "fence_json", v |-> JNull]
Fence == [t |-> "fence", v |-> JNull]
Word == [t |-> "word", v |-> JNull]
Doc(v) == [t |-> "json", v |-> v]

\* generate_content's outcomes: it raises, or returns a response with .text
Raised == [raises |-> TRUE, text |-> <<>>]
Text(tokens) == [raises |-> FALSE, text |-> tokens]
Bare(v) == Text(<<Doc(v)>>)
Fenced(v) == Text(<<FenceJson, Ws, Doc(v), Ws, Fence>>)

BadEnumList == <<CleanWorkout(0), JWorkout(TRUE, 1, "Cycling", "Ride", JNullSegments)>>
NoDayIndexList == <<JWorkout(FALSE, NoInt, "Rest", None, JNullSegments)>>
NoOrderList == <<JWorkout(TRUE, 0, "Running", "Run", JSegments(<<WarmUp(1), Unordered>>))>>

InvalidReplies ==
    {Raised,
     Text(<<Word, Ws, Word>>),
     Text(<<>>),
     Bare(JNull),
     Bare(JArray(CleanList(WeekDays))),
     Bare(JObject(FALSE, JNull)),
     Bare(JObject(TRUE, JNull)),
     Bare(JObject(TRUE, JArray(BadEnumList))),
     Bare(JObject(TRUE, JArray(NoDayIndexList))),
     Bare(JObject(TRUE, JArray(NoOrderList)))}

\* replies that satisfy the schema: the plan asked for with each of the given
\* numbers of workouts, bare and fenced
PlanReplies(lengths) ==
    {Bare(JObject(TRUE, JArray(CleanList(n)))) : n \in lengths}
    \cup {Fenced(JObject(TRUE, JArray(CleanList(n)))) : n \in lengths}

MessyReplies == {Bare(JObject(TRUE, JArray(MessyList(WeekDays))))}

Replies ==
    InvalidReplies \cup MessyReplies
    \cup PlanReplies({0} \cup WeekDays..MaxWorkouts)
ConcReplies == InvalidReplies \cup PlanReplies({WeekDays})

\* str.strip(): drops leading and trailing whitespace
RECURSIVE lstrip(_)
lstrip(text) ==
    IF text # <<>> /\ Head(text) = Ws THEN lstrip(Tail(text)) ELSE text

RECURSIVE rstrip(_)
rstrip(text) ==
    IF text # <<>> /\ text[Len(text)] = Ws
    THEN rstrip(SubSeq(text, 1, Len(text) - 1))
    ELSE text

strip(text) == rstrip(lstrip(text))

\* a notes string that itself holds an opening and a closing fence marker,
\* and what is left of it when markers are taken out
NoteWithFences == "Paces: fence_json 5:00/km fence"
NoteWithFence == "Paces:  5:00/km fence"
NoteWithJson == "Paces: json 5:00/km "
NoteWithoutFences == "Paces:  5:00/km "

\* str.replace(old, '') on a string inside the document
str_replace(str, old) ==
    CASE str = NoteWithFences /\ old = FenceJson -> NoteWithFence
      [] str = NoteWithFences /\ old = Fence -> NoteWithJson
      [] str = NoteWithFence /\ old = Fence -> NoteWithoutFences
      [] OTHER -> str

\* str.replace(old, '') on the part of the text that is a JSON document: it
\* reaches the strings inside the document like any other part of the text
json_replace(v, old) ==
    LET segment(sg) == [sg EXCEPT !.notes = str_replace(@, old)]
        workout(x) == [x EXCEPT !.segments.items =
                                    [j \in 1..Len(@) |-> segment(@[j])]]
        array(a) == [a EXCEPT !.items = [i \in 1..Len(@) |-> workout(@[i])]]
    IN IF v.kind = "array" THEN array(v)
       ELSE IF v.kind = "object" /\ v.has_workouts /\ v.workouts.kind = "array"
       THEN [v EXCEPT !.workouts = array(@)]
       ELSE v

\* str.replace(old, ''): every occurrence of old goes, inside the document
\* too; removing the three backquotes from an opening marker that still has
\* its language tag leaves the word json
replace(text, old) ==
    LET cut(tok) == IF old = Fence /\ tok = FenceJson THEN Word
                    ELSE IF tok.t = "json" THEN Doc(json_replace(tok.v, old))
                    ELSE tok
    IN [i \in 1..Len(SelectSeq(text, LAMBDA tok : tok # old)) |->
            cut(SelectSeq(text, LAMBDA tok : tok # old)[i])]

\* plan_response.text.strip().replace(FenceJson, '').replace(Fence, '').strip()
plan_cleaned_text(text) == strip(replace(replace(strip(text), FenceJson), Fence))

\* json.loads: one JSON document, whitespace around it allowed
json_loads(text) ==
    LET body == SelectSeq(text, LAMBDA tok : tok # Ws)
    IN IF Len(body) = 1 /\ body[1].t = "json"
       THEN [ok |-> TRUE, value |-> body[1].v]
       ELSE [ok |-> FALSE, value |-> JNull]

ActivityTypes == {"Swimming", "Running", "Rest"}

\* WorkoutSegmentPlan: segment_order is the only required field
ValidSegment(s) == s.has_order

\* WorkoutPlan: day_index: int, activity_type: Literal[...], optional title and
\* segments
ValidWorkout(w) ==
    /\ w.has_day_index
    /\ w.activity_type \in ActivityTypes
    /\ \A i \in 1..Len(w.segments.items) : ValidSegment(w.segments.items[i])

\* WeeklyPlanResponse: workouts: List[WorkoutPlan], of any length
ValidWeeklyPlan(obj) ==
    /\ obj.has_workouts
    /\ obj.workouts.kind = "array"
    /\ \A i \in 1..Len(obj.workouts.items) : ValidWorkout(obj.workouts.items[i])

\* the validated models: the reply's objects without the presence flags
WorkoutSegmentPlan(s) ==
    [segment_order |-> s.segment_order, segment_type |-> s.segment_type,
     duration_minutes |-> s.duration_minutes, distance_meters |-> s.distance_meters,
     target_intensity |-> s.target_intensity, exercise_name |-> s.exercise_name,
     reps |-> s.reps, rest_duration_seconds |-> s.rest_duration_seconds,
     notes |-> s.notes]

WorkoutPlan(w) ==
    [day_index |-> w.day_index, activity_type |-> w.activity_type,
     title |-> w.title,
     segments |-> [null |-> w.segments.null,
                   items |-> [i \in 1..Len(w.segments.items) |->
                                  WorkoutSegmentPlan(w.segments.items[i])]]]

WeeklyPlanResponse(obj) ==
    [i \in 1..Len(obj.workouts.items) |-> WorkoutPlan(obj.workouts.items[i])]

\* what a reply is, read off the reply itself: the call raised, the text is
\* not one JSON document, the document is not an object, the object violates
\* the schema, or it is a plan
ReplyKind(reply) ==
    LET docs == SelectSeq(reply.text, LAMBDA tok : tok.t = "json")
        rest == SelectSeq(reply.text, LAMBDA tok : tok.t = "word")
    IN CASE reply.raises -> "raised"
         [] ~reply.raises /\ (Len(docs) # 1 \/ rest # <<>>) -> "unparsable"
         [] OTHER ->
              LET v == docs[1].v
              IN IF v.kind # "object" THEN "nonobject"
                 ELSE IF ~v.has_workouts \/ v.workouts.kind # "array"
                         \/ \E i \in 1..Len(v.workouts.items) :
                               LET x == v.workouts.items[i]
                               IN \/ ~x.has_day_index
                                  \/ x.activity_type \notin {"Swimming", "Running", "Rest"}
                                  \/ \E j \in 1..Len(x.segments.items) :
                                        ~x.segments.items[j].has_order
                      THEN "violating"
                      ELSE "valid"

\* step 5 of generate_plan, lines 244-265: the error it raises for a reply, or
\* the validated weekly_plan
OracleStep(reply) ==
    IF reply.raises
    THEN [ok |-> FALSE, plan |-> <<>>, exc |-> HTTPException(500, "OracleUnavailable")]
    ELSE LET parsed == json_loads(plan_cleaned_text(reply.text))
         IN IF ~parsed.ok
            THEN [ok |-> FALSE, plan |-> <<>>,
                  exc |-> HTTPException(500, "OracleFormatError")]
            ELSE IF parsed.value.kind # "object"
            THEN \* ** of a non-mapping raises TypeError: the last except clause
                 [ok |-> FALSE, plan |-> <<>>,
                  exc |-> HTTPException(500, "OracleUnavailable")]
            ELSE IF ~ValidWeeklyPlan(parsed.value)
            THEN [ok |-> FALSE, plan |-> <<>>,
                  exc |-> HTTPException(500, "OracleSchemaError")]
            ELSE [ok |-> TRUE, plan |-> WeeklyPlanResponse(parsed.value),
                  exc |-> NoResponse]

\* the plan asked for, whose first workout carries a note that holds fence
\* markers
NotedList(n) ==
    [i \in 1..n |->
        IF i = 1
        THEN JWorkout(TRUE, 0, "Running", "Easy Run",
                      JSegments(<<JSegment(TRUE, 1, "WarmUp", 10, NoInt, "Easy",
                                           NoInt, NoInt, NoteWithFences),
                                  MainSet(2)>>))
        ELSE CleanWorkout(i - 1)]

\* the documents a reply may hold
ReplyDocs ==
    {JNull, JArray(CleanList(WeekDays)), JObject(FALSE, JNull), JObject(TRUE, JNull),
     JObject(TRUE, JArray(BadEnumList)), JObject(TRUE, JArray(NoDayIndexList)),
     JObject(TRUE, JArray(NoOrderList)), JObject(TRUE, JArray(MessyList(WeekDays)))}
    \cup {JObject(TRUE, JArray(CleanList(n))) : n \in 0..MaxWorkouts}
    \cup {JObject(TRUE, JArray(NotedList(n))) : n \in 1..MaxWorkouts}

\* a document as the model may send it: bare, with whitespace around it, in a
\* fence with or without the language tag, with or without line breaks
Wrappings(v) ==
    {Bare(v),
     Text(<<Ws, Doc(v), Ws>>),
     Fenced(v),
     Text(<<Fence, Ws, Doc(v), Ws, Fence>>),
     Text(<<Ws, FenceJson, Doc(v), Fence, Ws>>)}

ReplyTexts ==
    {Raised, Text(<<>>), Text(<<Word, Ws, Doc(JObject(TRUE, JArray(CleanList(WeekDays))))>>)}
    \cup UNION {Wrappings(v) : v \in ReplyDocs}

-----------------------------------------------------------------------------
(* Storage *)

\* .maybe_single().execute(): no row gives no data, one row gives the row,
\* several rows make the call raise
maybe_single(rows) ==
    [raises |-> Cardinality(rows) > 1, found |-> Cardinality(rows) = 1, rows |-> rows]

\* table('plans').select('id').eq('user_id', u).eq('week_start_date', d)
PlansOf(u, d) == {p \in plans : p.user_id = u /\ p.week_start_date = d}

WorkoutsOf(plan_ids) == {x \in workouts : x.plan_id \in plan_ids}
SegmentsOf(workout_ids) == {s \in segments : s.workout_id \in workout_ids}
Ids(rows) == {r.id : r \in rows}

\* the foreign keys workouts.plan_id and workout_segments.workout_id delete on
\* cascade: what remains of the three tables after plans row id is deleted
AfterDelete(id) ==
    LET gone == WorkoutsOf({id})
    IN [plans |-> {p \in plans : p.id # id},
        workouts |-> workouts \ gone,
        segments |-> segments \ SegmentsOf(Ids(gone))]

\* get_user_levels: the pair (swim_level, run_level); a failed query counts as
\* no row
get_user_levels(user_id, fails) ==
    LET response == maybe_single({a \in Assessments : a.user_id = user_id})
    IN IF fails \/ response.raises \/ ~response.found
       THEN [swim_level |-> None, run_level |-> None]
       ELSE LET data == CHOOSE a \in response.rows : TRUE
            IN [swim_level |-> data.swim_level, run_level |-> data.run_level]

\* the test of line 181 written with and
LevelsBothMissing(levels) == levels.swim_level = None /\ levels.run_level = None

\* if not swim_level or not run_level
LevelsIncomplete(levels) == levels.swim_level = None \/ levels.run_level = None

\* step 3 without the test of line 196: an existing plan does not stop the
\* request
ExistingPlanCheckOverwrite(rows, fails) ==
    IF fails \/ maybe_single(rows).raises
    THEN HTTPException(500, "ExistingPlanCheckError")
    ELSE NoResponse

\* step 3 of generate_plan, lines 189-204: the 409 is raised inside the try
\* block whose except clause catches every Exception, the 409 included
ExistingPlanCheck(rows, fails) ==
    LET response == maybe_single(rows)
        raised == IF fails \/ response.raises
                  THEN HTTPException(500, "APIError")
                  ELSE IF response.found
                       THEN HTTPException(409, "ConflictError")
                       ELSE NoResponse
    IN IF raised # NoResponse
       THEN HTTPException(500, "ExistingPlanCheckError")
       ELSE NoResponse

-----------------------------------------------------------------------------
(* Dates as text *)

\* a path string: text of the form YYYY-MM-DD, or any other text
IsoText(y, m, d) == [form |-> "YYYY-MM-DD", year |-> y, month |-> m, day |-> d]
NotADate == [form |-> "text", year |-> 0, month |-> 0, day |-> 0]
NoText == [form |-> "none", year |-> 0, month |-> 0, day |-> 0]

IsLeap(y) == y % 4 = 0 /\ (y % 100 # 0 \/ y % 400 = 0)

DaysInMonth(y, m) ==
    IF m = 2 /\ IsLeap(y) THEN 29
    ELSE <<31, 28, 31, 30, 31, 30, 31, 31, 30, 31, 30, 31>>[m]

RECURSIVE DaysBeforeMonth(_, _)
DaysBeforeMonth(y, m) ==
    IF m = 1 THEN 0 ELSE DaysBeforeMonth(y, m - 1) + DaysInMonth(y, m - 1)

DaysBeforeYear(y) ==
    (y - 1) * 365 + ((y - 1) \div 4) - ((y - 1) \div 100) + ((y - 1) \div 400)

\* date.fromisoformat: the date of a well-formed text whose fields are in
\* range, ValueError otherwise
fromisoformat(text) ==
    IF /\ text.form = "YYYY-MM-DD"
       /\ text.year \in 1..9999
       /\ text.month \in 1..12
       /\ text.day \in 1..DaysInMonth(text.year, text.month)
    THEN [ok |-> TRUE,
          value |-> DaysBeforeYear(text.year)
                      + DaysBeforeMonth(text.year, text.month) + text.day]
    ELSE [ok |-> FALSE, value |-> NoDate]

\* date.isoformat, for the dates of the first year
isoformat(d) ==
    LET m == CHOOSE k \in 1..12 :
                 DaysBeforeMonth(1, k) < d /\ d <= DaysBeforeMonth(1, k) + DaysInMonth(1, k)
    IN IsoText(1, m, d - DaysBeforeMonth(1, m))

-----------------------------------------------------------------------------
(* Requests *)

NoRow == [id |-> NoId]
NoDocument == [plan_id |-> NoId]

IdleReq ==
    [pc |-> "idle", user |-> None, given |-> NoDate, target |-> NoDate,
     swim_level |-> None, run_level |-> None, weekly_plan |-> <<>>,
     new_plan_id |-> NoId, day_index |-> 0, new_workout_id |-> NoId,
     response |-> NoResponse,
     week_start_date_str |-> NoText, week_start_date |-> NoDate,
     plan_data |-> NoRow, document |-> NoDocument]

\* what a request has done so far
NoHist ==
    [levels_read |-> FALSE, levels_absent |-> FALSE,
     checked |-> FALSE, found |-> FALSE, seen |-> {},
     oracle_calls |-> 0, reply_kind |-> None, writes |-> 0,
     plan_inserted |-> FALSE, workout_ids |-> {}, insert_failed |-> FALSE,
     deleted |-> FALSE,
     calls |-> <<>>, workout_seq |-> <<>>, plan_insert_failed |-> FALSE,
     delete_failed |-> FALSE, read_failed |-> FALSE, cancelled |-> FALSE]

\* one call on the storage client or on the model, as the history keeps it:
\* the operation and the list position it was issued for
Call(op, pos) == [op |-> op, pos |-> pos]

\* what the history keeps of a plan whose request succeeded
Stored(id, r) == [id |-> id, weekly_plan |-> r.weekly_plan]

\* step 5 not called on its own
NoOracleCall == [in |-> Raised, called |-> FALSE,
                 out |-> [ok |-> FALSE, plan |-> <<>>, exc |-> NoResponse]]

CanFail == faults < MaxFaults

\* the store generates a fresh identifier (a UUID) for every row: the k-th
\* one it generates on behalf of worker w
NewId(w, k) == <<w, k>>
FreshId(w) == NewId(w, nextId[w] + 1)

Raise(w, exc) == [req[w] EXCEPT !.pc = "done", !.response = exc]

\* the test of line 335 left out: the except clause always deletes
NeedsCleanupAlways(r) == TRUE

\* if new_plan_id: (line 335)
NeedsCleanup(r) == r.new_plan_id # NoId

\* the except clause with the delete failure left uncaught (lines 340-341
\* missing): the delete's own exception leaves the handler
cleanup_response_uncaught(delete_failed) ==
    IF delete_failed
    THEN HTTPException(500, "InternalServerError")
    ELSE HTTPException(500, "PersistenceError")

\* lines 343-347: the error the except clause raises, whether or not the
\* delete of line 338 failed
cleanup_response(delete_failed) == HTTPException(500, "PersistenceError")

\* a failed Workout insert issued again instead of ending the loop
ExceptRetry(w) ==
    IF req[w].pc = "insert_workout"
    THEN req[w]
    ELSE IF NeedsCleanup(req[w])
         THEN [req[w] EXCEPT !.pc = "cleanup"]
         ELSE Raise(w, cleanup_response(FALSE))

\* line 332: an exception of a storage write enters the except clause, which
\* deletes the Plan if one was created and raises the 500 otherwise at once
Except(w) ==
    IF NeedsCleanup(req[w])
    THEN [req[w] EXCEPT !.pc = "cleanup"]
    ELSE Raise(w, cleanup_response(FALSE))

TypeOK ==
    /\ today \in 1..(MaxDate + 1)
    /\ nextId \in [Workers -> Nat]
    /\ faults \in 0..MaxFaults
    /\ started \in 0..MaxRequests
    /\ \A r \in plans \cup workouts \cup segments :
          \E w \in Workers : \E k \in 1..nextId[w] : r.id = NewId(w, k)
    /\ \A w \in Workers :
          req[w].pc \in {"idle", "levels", "exists", "oracle", "insert_plan",
                         "insert_workout", "insert_segments", "cleanup", "done",
                         "get_plan", "get_workouts", "cancelled"}

Init ==
    /\ today \in TodayDates
    /\ plans = {}
    /\ workouts = {}
    /\ segments = {}
    /\ nextId = [w \in Workers |-> 0]
    /\ req = [w \in Workers |-> IdleReq]
    /\ faults = 0
    /\ started = 0
    /\ hist = [w \in Workers |-> NoHist]
    /\ planSeen = {}
    /\ completed = {}
    /\ oc = NoOracleCall
    /\ dr = [in |-> NoDate, called |-> FALSE, out |-> NoResult]

\* the request arrives: step 1 of generate_plan, line 176
StartWith(w, users, dates) ==
    /\ req[w].pc = "idle"
    /\ started < MaxRequests
    /\ \E u \in users, d \in dates :
          LET resolved == get_next_monday(d, today)
              r == [IdleReq EXCEPT !.user = u, !.given = d]
          IN req' = [req EXCEPT ![w] =
                        IF resolved.ok
                        THEN [r EXCEPT !.pc = "levels", !.target = resolved.value]
                        ELSE [r EXCEPT !.pc = "done", !.response = resolved.exc]]
    /\ started' = started + 1
    /\ hist' = [hist EXCEPT ![w] = NoHist]
    /\ UNCHANGED <<today, plans, workouts, segments, nextId, faults, planSeen,
                   completed, dr, oc>>

\* step 2, lines 180-186
GetLevels(w) ==
    /\ req[w].pc = "levels"
    /\ \E fails \in {FALSE, CanFail} :
          LET levels == get_user_levels(req[w].user, fails)
          IN /\ faults' = IF fails THEN faults + 1 ELSE faults
             /\ hist' = [hist EXCEPT ![w].calls = Append(@, Call("select_levels", 0)),
                                     ![w].levels_read = TRUE,
                                     ![w].levels_absent =
                                         \/ levels.swim_level = None
                                         \/ levels.run_level = None]
             /\ req' = [req EXCEPT ![w] =
                          IF LevelsIncomplete(levels)
                          THEN Raise(w, HTTPException(400, "IncompletePrerequisite"))
                          ELSE [req[w] EXCEPT !.pc = "exists",
                                              !.swim_level = levels.swim_level,
                                              !.run_level = levels.run_level]]
    /\ UNCHANGED <<today, plans, workouts, segments, nextId, started, planSeen,
                   completed, dr, oc>>

\* step 3, lines 189-204
CheckExisting(w) ==
    /\ req[w].pc = "exists"
    /\ \E fails \in {FALSE, CanFail} :
          LET rows == PlansOf(req[w].user, req[w].target)
              exc == ExistingPlanCheck(rows, fails)
          IN /\ faults' = IF fails THEN faults + 1 ELSE faults
             /\ hist' = [hist EXCEPT ![w].calls = Append(@, Call("select_plan", 0)),
                                     ![w].checked = TRUE,
                                     ![w].found = ~fails /\ rows # {},
                                     ![w].seen = IF fails THEN {} ELSE Ids(rows)]
             /\ req' = [req EXCEPT ![w] =
                          IF exc # NoResponse
                          THEN Raise(w, exc)
                          ELSE [req[w] EXCEPT !.pc = "oracle"]]
    /\ UNCHANGED <<today, plans, workouts, segments, nextId, started, planSeen,
                   completed, dr, oc>>

\* steps 4 and 5, lines 209-265
OracleWith(w, replies) ==
    /\ req[w].pc = "oracle"
    /\ \E reply \in replies :
          LET result == OracleStep(reply)
          IN /\ req' = [req EXCEPT ![w] =
                          IF result.ok
                          THEN [req[w] EXCEPT !.pc = "insert_plan",
                                              !.weekly_plan = result.plan]
                          ELSE Raise(w, result.exc)]
             /\ hist' = [hist EXCEPT ![w].calls = Append(@, Call("oracle", 0)),
                                     ![w].oracle_calls = @ + 1,
                                     ![w].reply_kind = ReplyKind(reply)]
    /\ UNCHANGED <<today, plans, workouts, segments, nextId, faults, started,
                   planSeen, completed, dr, oc>>

\* the loop of line 285 moves to the next workout, or falls through to the
\* success response of lines 350-354
NextWorkout(r) ==
    IF r.day_index + 1 < Len(r.weekly_plan)
    THEN [r EXCEPT !.pc = "insert_workout", !.day_index = @ + 1]
    ELSE [r EXCEPT !.pc = "done", !.response = Success]

\* lines 274-282: the Plan insert; an insert that raises or returns no data
\* leaves new_plan_id None, so that the except clause deletes nothing
InsertPlan(w) ==
    /\ req[w].pc = "insert_plan"
    /\ \E fails \in {FALSE, CanFail} :
          IF fails
          THEN /\ faults' = faults + 1
               /\ req' = [req EXCEPT ![w] = Except(w)]
               /\ hist' = [hist EXCEPT ![w].writes = @ + 1,
                                       ![w].calls = Append(@, Call("insert_plan", 0)),
                                       ![w].plan_insert_failed = TRUE]
               /\ UNCHANGED <<plans, nextId, planSeen, completed>>
          ELSE LET r == [req[w] EXCEPT !.new_plan_id = FreshId(w)]
                   after == IF Len(r.weekly_plan) = 0
                            THEN [r EXCEPT !.pc = "done", !.response = Success]
                            ELSE [r EXCEPT !.pc = "insert_workout", !.day_index = 0]
               IN /\ plans' = plans \cup
                        {[id |-> FreshId(w), user_id |-> r.user,
                          week_start_date |-> r.target]}
                  /\ nextId' = [nextId EXCEPT ![w] = @ + 1]
                  /\ req' = [req EXCEPT ![w] = after]
                  /\ hist' = [hist EXCEPT ![w].writes = @ + 1,
                                          ![w].calls = Append(@, Call("insert_plan", 0)),
                                          ![w].plan_inserted = TRUE]
                  /\ planSeen' = planSeen \cup {[id |-> FreshId(w), seen |-> hist[w].seen]}
                  /\ completed' = IF after.pc = "done"
                                  THEN completed \cup {Stored(FreshId(w), req[w])} ELSE completed
                  /\ faults' = faults
    /\ UNCHANGED <<today, workouts, segments, started, dr, oc>>

\* the test of line 305 without its second half
HasSegments(workout_plan) ==
    /\ ~workout_plan.segments.null
    /\ Len(workout_plan.segments.items) > 0

\* if workout_plan.segments and workout_plan.activity_type != 'Rest'
HasSegmentsToInsert(workout_plan) ==
    /\ ~workout_plan.segments.null
    /\ Len(workout_plan.segments.items) > 0
    /\ workout_plan.activity_type # "Rest"

\* the Workout row dated by the day_index the oracle reported
workout_insert_data_reported(r, id) ==
    LET workout_plan == r.weekly_plan[r.day_index + 1]
    IN [id |-> id, plan_id |-> r.new_plan_id, user_id |-> r.user,
        scheduled_date |-> r.target + workout_plan.day_index,
        activity_type |-> workout_plan.activity_type,
        title |-> workout_plan.title, status |-> "Scheduled"]

\* lines 289-297: the Workout row of the workout at list position day_index
workout_insert_data(r, id) ==
    LET workout_plan == r.weekly_plan[r.day_index + 1]
    IN [id |-> id, plan_id |-> r.new_plan_id, user_id |-> r.user,
        scheduled_date |-> r.target + r.day_index,
        activity_type |-> workout_plan.activity_type,
        title |-> workout_plan.title, status |-> "Scheduled"]

\* lines 285-302: one Workout insert
InsertWorkout(w) ==
    /\ req[w].pc = "insert_workout"
    /\ \E fails \in {FALSE, CanFail} :
          IF fails
          THEN /\ faults' = faults + 1
               /\ req' = [req EXCEPT ![w] = Except(w)]
               /\ hist' = [hist EXCEPT ![w].writes = @ + 1,
                                       ![w].calls = Append(@,
                                           Call("insert_workout", req[w].day_index)),
                                       ![w].insert_failed = TRUE]
               /\ UNCHANGED <<workouts, nextId, completed>>
          ELSE LET r == [req[w] EXCEPT !.new_workout_id = FreshId(w)]
                   after == IF HasSegmentsToInsert(r.weekly_plan[r.day_index + 1])
                            THEN [r EXCEPT !.pc = "insert_segments"]
                            ELSE NextWorkout(r)
               IN /\ workouts' = workouts \cup {workout_insert_data(r, FreshId(w))}
                  /\ nextId' = [nextId EXCEPT ![w] = @ + 1]
                  /\ req' = [req EXCEPT ![w] = after]
                  /\ hist' = [hist EXCEPT ![w].writes = @ + 1,
                                          ![w].calls = Append(@,
                                              Call("insert_workout", r.day_index)),
                                          ![w].workout_ids = @ \cup {FreshId(w)},
                                          ![w].workout_seq = Append(@, FreshId(w))]
                  /\ completed' = IF after.pc = "done"
                                  THEN completed \cup {Stored(r.new_plan_id, r)} ELSE completed
                  /\ faults' = faults
    /\ UNCHANGED <<today, plans, segments, started, planSeen, dr, oc>>

\* lines 306-322: the rows of one workout's segments, with the identifiers
\* the store gives them
segments_to_insert(w, r) ==
    LET items == r.weekly_plan[r.day_index + 1].segments.items
    IN {[id |-> NewId(w, nextId[w] + i), workout_id |-> r.new_workout_id,
         user_id |-> r.user,
         segment_order |-> items[i].segment_order,
         segment_type |-> items[i].segment_type,
         duration_minutes |-> items[i].duration_minutes,
         distance_meters |-> items[i].distance_meters,
         target_intensity |-> items[i].target_intensity,
         reps |-> items[i].reps,
         rest_duration_seconds |-> items[i].rest_duration_seconds,
         notes |-> items[i].notes] : i \in 1..Len(items)}

\* lines 324-328: the bulk insert of one workout's segments
InsertSegments(w) ==
    /\ req[w].pc = "insert_segments"
    /\ \E fails \in {FALSE, CanFail} :
          IF fails
          THEN /\ faults' = faults + 1
               /\ req' = [req EXCEPT ![w] = Except(w)]
               /\ hist' = [hist EXCEPT ![w].writes = @ + 1,
                                       ![w].calls = Append(@,
                                           Call("insert_segments", req[w].day_index)),
                                       ![w].insert_failed = TRUE]
               /\ UNCHANGED <<segments, nextId, completed>>
          ELSE LET rows == segments_to_insert(w, req[w])
                   after == NextWorkout(req[w])
               IN /\ segments' = segments \cup rows
                  /\ nextId' = [nextId EXCEPT ![w] = @ + Cardinality(rows)]
                  /\ req' = [req EXCEPT ![w] = after]
                  /\ hist' = [hist EXCEPT ![w].writes = @ + 1,
                                          ![w].calls = Append(@,
                                              Call("insert_segments", req[w].day_index))]
                  /\ completed' = IF after.pc = "done"
                                  THEN completed \cup {Stored(req[w].new_plan_id, req[w])}
                                  ELSE completed
                  /\ faults' = faults
    /\ UNCHANGED <<today, plans, workouts, started, planSeen, dr, oc>>

\* the delete of line 338 filtering on the id of the last Workout
cleanup_delete_workout_id(r) == AfterDelete(r.new_workout_id)

\* line 338: table('plans').delete().eq('id', new_plan_id)
cleanup_delete(r) == AfterDelete(r.new_plan_id)

\* lines 335-347: the except clause after a failed Workout or segment insert:
\* one delete of the Plan row, whose own failure is only logged, then the 500
Cleanup(w) ==
    /\ req[w].pc = "cleanup"
    /\ \E fails \in {FALSE, CanFail} :
          IF fails
          THEN /\ faults' = faults + 1
               /\ hist' = [hist EXCEPT ![w].writes = @ + 1,
                                       ![w].calls = Append(@, Call("delete_plan", 0)),
                                       ![w].delete_failed = TRUE]
               /\ req' = [req EXCEPT ![w] = Raise(w, cleanup_response(TRUE))]
               /\ UNCHANGED <<plans, workouts, segments>>
          ELSE LET after == cleanup_delete(req[w])
               IN /\ plans' = after.plans
                  /\ workouts' = after.workouts
                  /\ segments' = after.segments
                  /\ hist' = [hist EXCEPT ![w].writes = @ + 1,
                                          ![w].calls = Append(@, Call("delete_plan", 0)),
                                          ![w].deleted = TRUE]
                  /\ req' = [req EXCEPT ![w] = Raise(w, cleanup_response(FALSE))]
                  /\ faults' = faults
    /\ UNCHANGED <<today, nextId, started, planSeen, completed, dr, oc>>

\* the request stopped between two calls, its except clause taking it for a
\* failure
cancelled_caught(w) == Except(w)

\* the request stopped between two calls: what stops it (the task cancelled,
\* the process ended) is no Exception, so neither the except clause of line
\* 332 nor any later line runs
cancelled(w) == [req[w] EXCEPT !.pc = "cancelled"]

\* a request is cancelled after its Plan insert and before its last insert
Cancel(w) ==
    /\ req[w].pc \in {"insert_workout", "insert_segments"}
    /\ CanFail
    /\ faults' = faults + 1
    /\ req' = [req EXCEPT ![w] = cancelled(w)]
    /\ hist' = [hist EXCEPT ![w].cancelled = TRUE]
    /\ UNCHANGED <<today, plans, workouts, segments, nextId, started,
                   planSeen, completed, dr, oc>>

\* the response is sent, or the cancelled request is gone, and the worker is
\* free again
Finish(w) ==
    /\ req[w].pc \in {"done", "cancelled"}
    /\ req' = [req EXCEPT ![w] = IdleReq]
    /\ hist' = [hist EXCEPT ![w] = NoHist]
    /\ UNCHANGED <<today, plans, workouts, segments, nextId, faults, started,
                   planSeen, completed, dr, oc>>

-----------------------------------------------------------------------------
(* Retrieval: get_weekly_plan *)

GetUsers == {"alice", "carol"}
GetTexts == {isoformat(8), isoformat(15), isoformat(10), IsoText(1, 13, 1), NotADate}

Retrieved == HTTPException(200, "WeeklyPlanDetail")

\* lines 364-373 without the weekday test
parse_week_start_date_any_day(text) ==
    LET parsed == fromisoformat(text)
    IN IF ~parsed.ok
       THEN [ok |-> FALSE, value |-> NoDate, exc |-> HTTPException(400, "InvalidInput")]
       ELSE [ok |-> TRUE, value |-> parsed.value, exc |-> NoResponse]

\* lines 364-373: a text that is no date and a date that is no Monday both
\* raise ValueError, which becomes the 400
parse_week_start_date(text) ==
    LET parsed == fromisoformat(text)
    IN IF ~parsed.ok \/ weekday(parsed.value) # 0
       THEN [ok |-> FALSE, value |-> NoDate, exc |-> HTTPException(400, "InvalidInput")]
       ELSE [ok |-> TRUE, value |-> parsed.value, exc |-> NoResponse]

\* the except clauses with the first one missing: every exception becomes
\* the 500
get_weekly_plan_except_all(raised) == HTTPException(500, "RetrievalError")

\* lines 467-475: an HTTPException is raised again as it is, every other
\* exception becomes the 500
get_weekly_plan_except(raised) ==
    IF raised.err = "APIError"
    THEN HTTPException(500, "RetrievalError")
    ELSE raised

\* lines 377-388 without the filter on user_id
select_plan_any_user(u, d, fails) ==
    LET rows == {p \in plans : isoformat(p.week_start_date) = isoformat(d)}
        response == maybe_single(rows)
    IN IF fails \/ response.raises
       THEN [data |-> NoRow, raised |-> HTTPException(500, "APIError")]
       ELSE IF ~response.found
            THEN [data |-> NoRow, raised |-> HTTPException(404, "NotFound")]
            ELSE [data |-> CHOOSE p \in rows : TRUE, raised |-> NoResponse]

\* lines 377-388: the plans row of (user, week), or what is raised
select_plan(u, d, fails) ==
    LET rows == {p \in plans : p.user_id = u
                                /\ isoformat(p.week_start_date) = isoformat(d)}
        response == maybe_single(rows)
    IN IF fails \/ response.raises
       THEN [data |-> NoRow, raised |-> HTTPException(500, "APIError")]
       ELSE IF ~response.found
            THEN [data |-> NoRow, raised |-> HTTPException(404, "NotFound")]
            ELSE [data |-> CHOOSE p \in rows : TRUE, raised |-> NoResponse]

\* the columns of a workouts row that no insert of generate_plan sets
WorkoutColumnDefaults ==
    [user_modified_activity |-> FALSE, user_modified_details |-> FALSE]

\* .order('scheduled_date', desc=False): every sequence of the rows that is
\* ascending in scheduled_date
RECURSIVE order_by_scheduled_date(_)
order_by_scheduled_date(rows) ==
    IF rows = {} THEN {<<>>}
    ELSE LET first == {x \in rows : \A y \in rows : x.scheduled_date <= y.scheduled_date}
         IN UNION {{<<x>> \o t : t \in order_by_scheduled_date(rows \ {x})} : x \in first}

\* .order('segment_order', desc=False, foreign_table='workout_segments'):
\* rows of equal segment_order come in any order
RECURSIVE order_by_segment_order(_)
order_by_segment_order(rows) ==
    IF rows = {} THEN {<<>>}
    ELSE LET first == {x \in rows : \A y \in rows : x.segment_order <= y.segment_order}
         IN UNION {{<<x>> \o t : t \in order_by_segment_order(rows \ {x})} : x \in first}

\* lines 429-442 reading distance_meters under the key of another column
WorkoutSegmentDetail_wrong_key(segment_db) ==
    [id |-> segment_db.id,
     segment_order |-> segment_db.segment_order,
     segment_type |-> segment_db.segment_type,
     duration_minutes |-> segment_db.duration_minutes,
     distance_meters |-> segment_db.duration_minutes,
     target_intensity |-> segment_db.target_intensity,
     reps |-> segment_db.reps,
     rest_duration_seconds |-> segment_db.rest_duration_seconds,
     notes |-> segment_db.notes,
     exercise |-> None]

\* lines 429-442; no segment row has an exercise, generate_plan sets none
WorkoutSegmentDetail(segment_db) ==
    [id |-> segment_db.id,
     segment_order |-> segment_db.segment_order,
     segment_type |-> segment_db.segment_type,
     duration_minutes |-> segment_db.duration_minutes,
     distance_meters |-> segment_db.distance_meters,
     target_intensity |-> segment_db.target_intensity,
     reps |-> segment_db.reps,
     rest_duration_seconds |-> segment_db.rest_duration_seconds,
     notes |-> segment_db.notes,
     exercise |-> None]

\* lines 444-455
WorkoutDetail(workout_db, detailed_segments) ==
    [id |-> workout_db.id,
     scheduled_date |-> fromisoformat(isoformat(workout_db.scheduled_date)).value,
     activity_type |-> workout_db.activity_type,
     title |-> workout_db.title,
     status |-> workout_db.status,
     user_modified_activity |-> workout_db.user_modified_activity,
     user_modified_details |-> workout_db.user_modified_details,
     segments |-> detailed_segments]

\* lines 404-409 and 458-463
WeeklyPlanDetail(plan_data, detailed_workouts) ==
    [plan_id |-> plan_data.id,
     user_id |-> plan_data.user_id,
     week_start_date |-> fromisoformat(isoformat(plan_data.week_start_date)).value,
     workouts |-> detailed_workouts]

\* lines 414-455: the detailed workouts of the rows in the order the store
\* returned them, for every order it may give the segments of a workout
RECURSIVE detailed_workouts(_)
detailed_workouts(rows) ==
    IF rows = <<>> THEN {<<>>}
    ELSE LET workout_db == Head(rows) @@ WorkoutColumnDefaults
         IN {<<WorkoutDetail(workout_db,
                            [k \in 1..Len(sg) |-> WorkoutSegmentDetail(sg[k])])>> \o rest :
                sg \in order_by_segment_order(SegmentsOf({workout_db.id})),
                rest \in detailed_workouts(Tail(rows))}

\* lines 395-463: the documents the request may return for a plans row
documents(plan_data) ==
    LET rows == WorkoutsOf({plan_data.id})
    IN IF rows = {}
       THEN {WeeklyPlanDetail(plan_data, <<>>)}
       ELSE {WeeklyPlanDetail(plan_data, dw) :
                dw \in UNION {detailed_workouts(sorted) :
                                 sorted \in order_by_scheduled_date(rows)}}

\* the request arrives and its path string is parsed, lines 364-373
GetStartWith(w, users, texts) ==
    /\ req[w].pc = "idle"
    /\ started < MaxRequests
    /\ \E u \in users, text \in texts :
          LET parsed == parse_week_start_date(text)
              r == [IdleReq EXCEPT !.user = u, !.week_start_date_str = text]
          IN req' = [req EXCEPT ![w] =
                        IF parsed.ok
                        THEN [r EXCEPT !.pc = "get_plan", !.week_start_date = parsed.value]
                        ELSE [r EXCEPT !.pc = "done", !.response = parsed.exc]]
    /\ started' = started + 1
    /\ hist' = [hist EXCEPT ![w] = NoHist]
    /\ UNCHANGED <<today, plans, workouts, segments, nextId, faults, planSeen,
                   completed, dr, oc>>

\* lines 377-392
GetPlan(w) ==
    /\ req[w].pc = "get_plan"
    /\ \E fails \in {FALSE, CanFail} :
          LET plan_res == select_plan(req[w].user, req[w].week_start_date, fails)
          IN /\ req' = [req EXCEPT ![w] =
                           IF plan_res.raised # NoResponse
                           THEN Raise(w, get_weekly_plan_except(plan_res.raised))
                           ELSE [req[w] EXCEPT !.pc = "get_workouts",
                                               !.plan_data = plan_res.data]]
             /\ faults' = IF fails THEN faults + 1 ELSE faults
             /\ hist' = [hist EXCEPT ![w].calls = Append(@, Call("select_plan", 0)),
                                     ![w].read_failed = fails,
                                     ![w].seen =
                                         IF fails THEN {}
                                         ELSE Ids(PlansOf(req[w].user,
                                                          req[w].week_start_date))]
    /\ UNCHANGED <<today, plans, workouts, segments, nextId, started, planSeen,
                   completed, dr, oc>>

\* lines 395-465
GetWorkouts(w) ==
    /\ req[w].pc = "get_workouts"
    /\ \E fails \in {FALSE, CanFail} :
          IF fails
          THEN /\ req' = [req EXCEPT ![w] =
                             Raise(w, get_weekly_plan_except(HTTPException(500, "APIError")))]
               /\ faults' = faults + 1
               /\ hist' = [hist EXCEPT ![w].calls = Append(@, Call("select_workouts", 0)),
                                       ![w].read_failed = TRUE]
          ELSE /\ \E doc \in documents(req[w].plan_data) :
                     req' = [req EXCEPT ![w] = [req[w] EXCEPT !.pc = "done",
                                                             !.response = Retrieved,
                                                             !.document = doc]]
               /\ faults' = faults
               /\ hist' = [hist EXCEPT ![w].calls = Append(@, Call("select_workouts", 0))]
    /\ UNCHANGED <<today, plans, workouts, segments, nextId, started, planSeen,
                   completed, dr, oc>>

GetStart(w) == GetStartWith(w, GetUsers, GetTexts)

Retrieve(w) ==
    \/ GetStart(w)
    \/ GetPlan(w)
    \/ GetWorkouts(w)

\* retrievals of the week the concurrent generate requests write
ConcTexts == {isoformat(8)}

GetStartConc(w) == GetStartWith(w, ConcUsers, ConcTexts)

RetrieveConc(w) ==
    \/ GetStartConc(w)
    \/ GetPlan(w)
    \/ GetWorkouts(w)

Persist(w) ==
    \/ InsertPlan(w)
    \/ InsertWorkout(w)
    \/ InsertSegments(w)
    \/ Cleanup(w)

\* One worker: requests run one at a time, as they do inside one server
\* process, whose handlers never yield between their calls.
Start(w) == StartWith(w, Users, GivenDates)

CallOracle(w) == OracleWith(w, Replies)

Next ==
    \E w \in SeqWorkers :
        \/ Start(w)
        \/ GetLevels(w)
        \/ CheckExisting(w)
        \/ CallOracle(w)
        \/ Persist(w)
        \/ Retrieve(w)
        \/ Finish(w)

Spec == Init /\ [][Next]_vars

\* Several server processes on one store: their requests interleave at every
\* call.
StartConc(w) == StartWith(w, ConcUsers, ConcDates)

CallOracleConc(w) == OracleWith(w, ConcReplies)

NextConc ==
    \E w \in Workers :
        \/ StartConc(w)
        \/ GetLevels(w)
        \/ CheckExisting(w)
        \/ CallOracleConc(w)
        \/ Persist(w)
        \/ Finish(w)

SpecConc == Init /\ [][NextConc]_vars

\* Several server processes on one store, some of them serving retrievals
\* of the week the others generate.
ReadReplies == {Raised, Bare(JObject(TRUE, JArray(CleanList(WeekDays))))}

CallOracleRead(w) == OracleWith(w, ReadReplies)

\* no call on the store fails here
InitRead ==
    /\ today \in TodayDates
    /\ plans = {}
    /\ workouts = {}
    /\ segments = {}
    /\ nextId = [w \in Workers |-> 0]
    /\ req = [w \in Workers |-> IdleReq]
    /\ faults = MaxFaults
    /\ started = 0
    /\ hist = [w \in Workers |-> NoHist]
    /\ planSeen = {}
    /\ completed = {}
    /\ dr = [in |-> NoDate, called |-> FALSE, out |-> NoResult]
    /\ oc = NoOracleCall

NextRead ==
    \E w \in Workers :
        \/ StartConc(w)
        \/ GetLevels(w)
        \/ CheckExisting(w)
        \/ CallOracleRead(w)
        \/ InsertPlan(w)
        \/ InsertWorkout(w)
        \/ InsertSegments(w)
        \/ RetrieveConc(w)
        \/ Finish(w)

SpecRead == InitRead /\ [][NextRead]_vars

\* One worker whose request may be cancelled while it persists its plan.
StartCancel(w) == StartWith(w, {"alice"}, {NoDate, 15})

NextCancel ==
    \E w \in SeqWorkers :
        \/ StartCancel(w)
        \/ GetLevels(w)
        \/ CheckExisting(w)
        \/ CallOracleRead(w)
        \/ Persist(w)
        \/ Cancel(w)
        \/ Finish(w)

SpecCancel == Init /\ [][NextCancel]_vars

\* The date resolver on its own, for every input and every today.
InitDate ==
    /\ today \in 1..MaxDate
    /\ dr \in [in : {NoDate} \cup 1..MaxDate, called : {FALSE}, out : {NoResult}]
    /\ plans = {}
    /\ workouts = {}
    /\ segments = {}
    /\ nextId = [w \in Workers |-> 0]
    /\ req = [w \in Workers |-> IdleReq]
    /\ faults = 0
    /\ started = 0
    /\ hist = [w \in Workers |-> NoHist]
    /\ planSeen = {}
    /\ completed = {}
    /\ oc = NoOracleCall

Resolve ==
    /\ ~dr.called
    /\ dr' = [dr EXCEPT !.called = TRUE, !.out = get_next_monday(dr.in, today)]
    /\ UNCHANGED <<today, plans, workouts, segments, nextId, req, faults,
                   started, hist, planSeen, completed, oc>>

NextDate == Resolve

SpecDate == InitDate /\ [][NextDate]_vars

\* The reply processing of step 5 on its own, for every reply text.
InitReply ==
    /\ today \in TodayDates
    /\ oc \in {[NoOracleCall EXCEPT !.in = reply] : reply \in ReplyTexts}
    /\ dr = [in |-> NoDate, called |-> FALSE, out |-> NoResult]
    /\ plans = {}
    /\ workouts = {}
    /\ segments = {}
    /\ nextId = [w \in Workers |-> 0]
    /\ req = [w \in Workers |-> IdleReq]
    /\ faults = 0
    /\ started = 0
    /\ hist = [w \in Workers |-> NoHist]
    /\ planSeen = {}
    /\ completed = {}

ParseReply ==
    /\ ~oc.called
    /\ oc' = [oc EXCEPT !.called = TRUE, !.out = OracleStep(oc.in)]
    /\ UNCHANGED <<today, plans, workouts, segments, nextId, req, faults,
                   started, hist, planSeen, completed, dr>>

NextReply == ParseReply

SpecReply == InitReply /\ [][NextReply]_vars

-----------------------------------------------------------------------------
(* Properties *)

Done(w) == req[w].pc = "done"

\* the rows a request inserted that are still in the tables
OwnPlans(w) == {p \in plans : p.id = req[w].new_plan_id}
OwnWorkouts(w) == {x \in workouts : x.plan_id = req[w].new_plan_id}
OwnSegments(w) == {s \in segments : s.workout_id \in hist[w].workout_ids}

\* a request whose Plan insert succeeded and one of whose later inserts failed
FailedAfterPlan(w) == Done(w) /\ hist[w].plan_inserted /\ hist[w].insert_failed

\* C1: a generate request whose existence check finds a Plan row for its
\* (user, week) answers with status 409.
C1_ConflictIs409 ==
    \A w \in Workers :
        Done(w) /\ hist[w].found => req[w].response.code = 409

\* C2 as stated: after a request whose Plan insert succeeded and whose later
\* Workout or segment insert failed has returned its error, none of the Plan,
\* Workout and WorkoutSegment rows of that (user, week) is left.
C2_NoRowSurvives ==
    \A w \in Workers :
        FailedAfterPlan(w) =>
            /\ PlansOf(req[w].user, req[w].target) = {}
            /\ OwnPlans(w) = {}
            /\ OwnWorkouts(w) = {}
            /\ OwnSegments(w) = {}

\* C2 amended: after such a request has returned its error (always a 500),
\* none of its Plan, Workout and WorkoutSegment rows is left if its
\* compensating delete succeeded; if the delete failed, its Plan row and every
\* Workout row it inserted are still there.
C2_NoRowSurvivesDelete ==
    \A w \in Workers :
        FailedAfterPlan(w) =>
            /\ req[w].response = HTTPException(500, "PersistenceError")
            /\ hist[w].deleted =>
                  /\ PlansOf(req[w].user, req[w].target) = {}
                  /\ OwnPlans(w) = {}
                  /\ OwnWorkouts(w) = {}
                  /\ OwnSegments(w) = {}
            /\ ~hist[w].deleted =>
                  /\ Cardinality(OwnPlans(w)) = 1
                  /\ Ids(OwnWorkouts(w)) = hist[w].workout_ids

\* C2 witness: the segment insert of the workout at day_index 4 of a
\* 7-workout plan failed, the delete succeeded and the request has returned.
C2_Witness ==
    \E w \in Workers :
        /\ FailedAfterPlan(w)
        /\ hist[w].deleted
        /\ Len(req[w].weekly_plan) = WeekDays
        /\ req[w].day_index = 4
        /\ Cardinality(hist[w].workout_ids) = 5

\* C3: when a generate request returns 200, its Plan has exactly 7 Workout rows,
\* one for each of the dates week_start_date + 0..6, each carrying the Plan's
\* identifier, and every segment of every non-Rest workout of the validated
\* plan is stored and linked to its Workout.
C3_SevenWorkoutsOnSuccess ==
    \A w \in Workers :
        Done(w) /\ req[w].response = Success =>
            /\ Cardinality(OwnWorkouts(w)) = 7
            /\ {x.scheduled_date : x \in OwnWorkouts(w)}
                  = {req[w].target + k : k \in 0..6}
            /\ \A i \in 1..Len(req[w].weekly_plan) :
                  LET wp == req[w].weekly_plan[i]
                  IN wp.activity_type # "Rest" =>
                        \E x \in OwnWorkouts(w) :
                            /\ x.scheduled_date = req[w].target + i - 1
                            /\ \A j \in 1..Len(wp.segments.items) :
                                  \E sg \in segments :
                                      /\ sg.workout_id = x.id
                                      /\ sg.segment_order = wp.segments.items[j].segment_order
                                      /\ sg.segment_type = wp.segments.items[j].segment_type

\* C4: a generate request for a (user, week) whose Plan was stored by an
\* earlier successful generate issues no write, and storage then holds exactly
\* one Plan for that (user, week), with 7 Workouts.
C4_SecondCallChangesNothing ==
    \A w \in Workers :
        Done(w) /\ hist[w].found
        /\ Ids(PlansOf(req[w].user, req[w].target)) \subseteq Ids(completed) =>
            /\ hist[w].writes = 0
            /\ Cardinality(PlansOf(req[w].user, req[w].target)) = 1
            /\ Cardinality(WorkoutsOf(Ids(PlansOf(req[w].user, req[w].target)))) = 7

\* C5: with requests run one at a time, storage never holds two Plan rows for
\* one (user, week_start_date), whatever succeeded and whatever failed.
C5_OnePlanPerWeek ==
    \A p, q \in plans :
        p.user_id = q.user_id /\ p.week_start_date = q.week_start_date => p = q

\* C5 witness: a request was turned away by the existence check because of a
\* Plan that an earlier request left behind after its delete failed.
C5_Witness ==
    \E w \in Workers :
        /\ Done(w)
        /\ hist[w].found
        /\ PlansOf(req[w].user, req[w].target) # {}
        /\ ~(Ids(PlansOf(req[w].user, req[w].target)) \subseteq Ids(completed))

\* two Plan rows of one (user, week)
Duplicates(p, q) ==
    /\ p # q
    /\ p.user_id = q.user_id
    /\ p.week_start_date = q.week_start_date

SeenBy(id) == UNION {e.seen : e \in {x \in planSeen : x.id = id}}

\* C6: two Plan rows of one (user, week) come from two requests that both ran
\* their existence check before either inserted its Plan: neither check saw the
\* other request's row.
C6_DuplicatesComeFromTheRace ==
    \A p, q \in plans :
        Duplicates(p, q) => q.id \notin SeenBy(p.id) /\ p.id \notin SeenBy(q.id)

\* C6 witness: storage holds two Plan rows for one (user, week).
C6_Witness == \E p, q \in plans : Duplicates(p, q)

\* ordinal 1 is a Monday
IsMonday(d) == d % 7 = 1

\* C7: get_next_monday called with a date that is not a Monday fails with
\* InvalidInput (400); called with a Monday it returns that date.
C7_SuppliedDate ==
    dr.called /\ dr.in # NoDate =>
        IF IsMonday(dr.in)
        THEN dr.out.ok /\ dr.out.value = dr.in
        ELSE ~dr.out.ok /\ dr.out.exc = HTTPException(400, "InvalidInput")

\* C7 witness: the resolver was called with a Sunday and raised.
C7_Witness ==
    dr.called /\ dr.in # NoDate /\ dr.in % 7 = 0 /\ dr.out.exc.code = 400

\* C8: get_next_monday called without a date returns a Monday after today: the
\* one 7 days later when today is a Monday, else the nearest one, 1 to 6 days
\* ahead.
C8_NoDate ==
    dr.called /\ dr.in = NoDate =>
        /\ dr.out.ok
        /\ IsMonday(dr.out.value)
        /\ dr.out.value # today
        /\ IF IsMonday(today)
           THEN dr.out.value = today + 7
           ELSE 0 < dr.out.value - today /\ dr.out.value - today <= 6

\* C8 witness: the resolver was called without a date on a Monday.
C8_Witness ==
    dr.called /\ dr.in = NoDate /\ IsMonday(today) /\ dr.out.value = today + 7

\* C9: a request whose level lookup gave no swim_level or no run_level ends
\* with IncompletePrerequisite (400) and has neither called the oracle nor
\* issued a storage write.
C9_IncompleteLevels ==
    \A w \in Workers :
        hist[w].levels_absent =>
            /\ Done(w)
            /\ req[w].response = HTTPException(400, "IncompletePrerequisite")
            /\ hist[w].oracle_calls = 0
            /\ hist[w].writes = 0
            /\ ~hist[w].checked

\* C9 witness: carol, whose assessment row lacks the swim level, was refused.
C9_Witness ==
    \E w \in Workers :
        /\ hist[w].levels_absent
        /\ req[w].user = "carol"
        /\ req[w].response.code = 400

\* C10: the oracle step reports unparsable text as OracleFormatError, a reply
\* that parses but violates the schema (a top level that is no object
\* included) as OracleSchemaError and a failed call as OracleUnavailable, and
\* accepts only replies that satisfy the schema.
C10_DistinctOracleErrors ==
    \A w \in Workers :
        LET kind == hist[w].reply_kind
            err == req[w].response.err
        IN /\ kind = "unparsable" => Done(w) /\ err = "OracleFormatError"
           /\ kind \in {"nonobject", "violating"} =>
                 Done(w) /\ err = "OracleSchemaError"
           /\ kind = "raised" => Done(w) /\ err = "OracleUnavailable"

CallsOf(w, ops) == {i \in 1..Len(hist[w].calls) : hist[w].calls[i].op \in ops}

WriteOps == {"insert_plan", "insert_workout", "insert_segments", "delete_plan"}

\* C14: in a generate request the oracle is called only after the date was
\* resolved to a Monday, both levels were found and the existence check found
\* no Plan; a storage write is issued only after the oracle was called and its
\* reply validated; a request that fails before the first write has issued no
\* write.
C14_StepOrder ==
    \A w \in Workers :
        /\ \A i \in CallsOf(w, {"oracle"}) :
              /\ \E j \in CallsOf(w, {"select_levels"}) : j < i
              /\ \E j \in CallsOf(w, {"select_plan"}) : j < i
              /\ req[w].target % 7 = 1
              /\ ~hist[w].levels_absent
              /\ ~hist[w].found
        /\ \A i \in CallsOf(w, WriteOps) :
              /\ \E j \in CallsOf(w, {"oracle"}) : j < i
              /\ hist[w].reply_kind = "valid"
        /\ Done(w) /\ req[w].response.err \in
                        {"InvalidInput", "IncompletePrerequisite",
                         "ExistingPlanCheckError", "OracleFormatError",
                         "OracleSchemaError", "OracleUnavailable"}
              => hist[w].writes = 0 /\ CallsOf(w, WriteOps) = {}

\* C14 witness: a request whose reply violated the schema has ended, after a
\* Plan was stored by an earlier request.
C14_Witness ==
    \E w \in Workers :
        /\ Done(w)
        /\ hist[w].reply_kind = "violating"
        /\ plans # {}

\* C15: when the compensating delete fails, the request still ends with the
\* one PersistenceError (500), and the delete was issued once.
C15_CleanupFailureIsSilent ==
    \A w \in Workers :
        hist[w].delete_failed =>
            /\ Done(w)
            /\ req[w].response = HTTPException(500, "PersistenceError")
            /\ Cardinality(CallsOf(w, {"delete_plan"})) = 1
            /\ hist[w].calls[Len(hist[w].calls)].op = "delete_plan"

\* C15 witness: a segment insert failed and then the delete failed.
C15_Witness ==
    \E w \in Workers :
        /\ hist[w].delete_failed
        /\ req[w].pc = "done"
        /\ CallsOf(w, {"insert_segments"}) # {}

\* C16: when the Plan insert fails the request ends with PersistenceError
\* (500) and the Plan insert is its last storage operation: no Workout insert,
\* no segment insert, no delete.
C16_PlanInsertFailure ==
    \A w \in Workers :
        hist[w].plan_insert_failed =>
            /\ Done(w)
            /\ req[w].response = HTTPException(500, "PersistenceError")
            /\ hist[w].calls[Len(hist[w].calls)].op = "insert_plan"
            /\ CallsOf(w, {"insert_workout", "insert_segments", "delete_plan"}) = {}
            /\ hist[w].writes = 1

\* C16 witness: a request ended by a failed Plan insert.
C16_Witness ==
    \E w \in Workers : hist[w].plan_insert_failed /\ req[w].response.code = 500

\* C17: the Workout row inserted for list position i (from 0) is dated
\* week_start_date + i and has that position's activity_type, whatever
\* day_index the oracle reported; once the Plan is inserted only a failed
\* storage call makes the request fail.
C17_PositionalDate ==
    \A w \in Workers :
        /\ \A i \in 1..Len(hist[w].workout_seq) :
              \A x \in workouts :
                  x.id = hist[w].workout_seq[i] =>
                      /\ x.scheduled_date = req[w].target + (i - 1)
                      /\ x.activity_type = req[w].weekly_plan[i].activity_type
        /\ Done(w) /\ hist[w].plan_inserted /\ req[w].response # Success
              => hist[w].insert_failed

\* C17 witness: a request succeeded whose plan reports day_index 5 at list
\* position 2, and the row of that position is dated week_start_date + 2.
C17_Witness ==
    \E w \in Workers :
        /\ Done(w)
        /\ req[w].response = Success
        /\ Len(req[w].weekly_plan) = WeekDays
        /\ req[w].weekly_plan[3].day_index = 5
        /\ \E x \in workouts :
              x.id = hist[w].workout_seq[3] /\ x.scheduled_date = req[w].target + 2

\* C18: no WorkoutSegment row belongs to a Workout whose activity_type is Rest.
C18_NoSegmentsOnRest ==
    \A sg \in segments :
        \A x \in workouts : x.id = sg.workout_id => x.activity_type # "Rest"

\* C18 witness: a request succeeded whose reply gave segments to a Rest
\* workout, and the row of that workout is stored.
C18_Witness ==
    \E w \in Workers :
        /\ Done(w)
        /\ req[w].response = Success
        /\ \E i \in 1..Len(req[w].weekly_plan) :
              /\ req[w].weekly_plan[i].activity_type = "Rest"
              /\ Len(req[w].weekly_plan[i].segments.items) > 0
              /\ \E x \in workouts :
                    x.id = hist[w].workout_seq[i] /\ x.activity_type = "Rest"

\* C19: the segment_order values of the WorkoutSegment rows of a stored
\* Workout start at 1 and no two rows of one Workout share a value.
C19_SegmentOrder ==
    \A x \in workouts :
        LET rows == SegmentsOf({x.id})
        IN rows # {} =>
              /\ \E sg \in rows : sg.segment_order = 1
              /\ \A sg \in rows : sg.segment_order >= 1
              /\ \A a, b \in rows : a.segment_order = b.segment_order => a = b

\* C20: within one request no call is issued twice: one oracle call, one Plan
\* insert, one Workout insert and one segment insert per list position, one
\* delete; a call that failed is not issued again.
C20_NoCallTwice ==
    \A w \in Workers :
        /\ \A i, j \in 1..Len(hist[w].calls) :
              hist[w].calls[i] = hist[w].calls[j] => i = j
        /\ hist[w].oracle_calls <= 1
        /\ hist[w].writes = Cardinality(CallsOf(w, WriteOps))

\* C20 witness: a request has ended after a failed Workout insert at list
\* position 2 and a failed delete.
C20_Witness ==
    \E w \in Workers :
        /\ Done(w)
        /\ hist[w].insert_failed
        /\ hist[w].delete_failed
        /\ hist[w].calls[Len(hist[w].calls) - 1] = Call("insert_workout", 2)

\* a retrieval request that has ended
GetDone(w) == req[w].pc = "done" /\ req[w].week_start_date_str # NoText

\* C11: a retrieval for a Monday whose reads did not fail answers 404 NotFound
\* when storage holds no Plan row of (caller, week), and answers 200 with the
\* plan id, the user id, the week_start_date and an empty workout list when
\* the Plan row exists and has no Workout row.
C11_NotFoundAndEmptyPlan ==
    \A w \in Workers :
        GetDone(w) /\ req[w].week_start_date # NoDate /\ ~hist[w].read_failed =>
            LET rows == PlansOf(req[w].user, req[w].week_start_date)
            IN /\ rows = {} =>
                     /\ req[w].response = HTTPException(404, "NotFound")
                     /\ req[w].document = NoDocument
               /\ \A p \in rows :
                     rows = {p} /\ WorkoutsOf({p.id}) = {} =>
                         /\ req[w].response.code = 200
                         /\ req[w].document =
                               [plan_id |-> p.id, user_id |-> req[w].user,
                                week_start_date |-> req[w].week_start_date,
                                workouts |-> <<>>]

\* C11 witness: a retrieval has ended for a stored Plan without Workout rows.
C11_Witness ==
    \E w \in Workers :
        /\ GetDone(w)
        /\ ~hist[w].read_failed
        /\ \E p \in PlansOf(req[w].user, req[w].week_start_date) :
              WorkoutsOf({p.id}) = {}

\* the fields of a retrieved segment are those of a persisted one
SameSegment(detail, segment_plan) ==
    /\ detail.segment_order = segment_plan.segment_order
    /\ detail.segment_type = segment_plan.segment_type
    /\ detail.duration_minutes = segment_plan.duration_minutes
    /\ detail.distance_meters = segment_plan.distance_meters
    /\ detail.target_intensity = segment_plan.target_intensity
    /\ detail.reps = segment_plan.reps
    /\ detail.rest_duration_seconds = segment_plan.rest_duration_seconds
    /\ detail.notes = segment_plan.notes

\* the segments generate persists for a workout of the plan
PersistedSegments(workout_plan) ==
    IF workout_plan.activity_type = "Rest" THEN <<>> ELSE workout_plan.segments.items

\* a retrieved workout against the workout of the plan it was persisted from
RoundTripWorkout(detail, workout_plan) ==
    LET items == PersistedSegments(workout_plan)
        n == Len(items)
    IN /\ detail.activity_type = workout_plan.activity_type
       /\ detail.title = workout_plan.title
       /\ Len(detail.segments) = n
       /\ \A k \in 1..(n - 1) :
             detail.segments[k].segment_order <= detail.segments[k + 1].segment_order
       /\ \E pi \in [1..n -> 1..n] :
             /\ \A a, b \in 1..n : pi[a] = pi[b] => a = b
             /\ \A k \in 1..n : SameSegment(detail.segments[k], items[pi[k]])

\* C12: a retrieval that returns the document of a Plan persisted by a
\* successful generate from a validated plan of 7 workouts returns 7 workouts
\* in ascending scheduled_date order, the i-th with the activity_type and
\* title of the plan's i-th workout, its segments in ascending segment_order
\* and every persisted segment field as it was persisted.
C12_RoundTrip ==
    \A w \in Workers :
        GetDone(w) /\ req[w].response = Retrieved =>
            \A c \in completed :
                c.id = req[w].document.plan_id /\ Len(c.weekly_plan) = WeekDays =>
                    LET got == req[w].document.workouts
                    IN /\ Len(got) = WeekDays
                       /\ \A i \in 1..(WeekDays - 1) :
                             got[i].scheduled_date < got[i + 1].scheduled_date
                       /\ \A i \in 1..WeekDays :
                             RoundTripWorkout(got[i], c.weekly_plan[i])

\* C12 witness: the document of a persisted 7-workout plan was retrieved whose
\* second Running workout was persisted with segment_order 3 before 0.
C12_Witness ==
    \E w \in Workers :
        /\ GetDone(w)
        /\ req[w].response = Retrieved
        /\ \E c \in completed :
              /\ c.id = req[w].document.plan_id
              /\ Len(c.weekly_plan) = WeekDays
              /\ \E i \in 1..WeekDays :
                    /\ Len(c.weekly_plan[i].segments.items) = 2
                    /\ c.weekly_plan[i].segments.items[1].segment_order = 3
                    /\ Len(req[w].document.workouts[i].segments) = 2
                    /\ req[w].document.workouts[i].segments[1].segment_order = 0

\* the text of a Monday
MondayText(text) == \E d \in 1..MaxDate : d % 7 = 1 /\ text = isoformat(d)

\* C13: a retrieval whose path string is not a valid ISO date, or is a date
\* that is not a Monday, ends with 400 and has issued no storage read.
C13_BadDateIs400 ==
    \A w \in Workers :
        req[w].week_start_date_str # NoText /\ ~MondayText(req[w].week_start_date_str) =>
            /\ req[w].pc = "done"
            /\ req[w].response.code = 400
            /\ hist[w].calls = <<>>
            /\ req[w].document = NoDocument

\* C13 witness: a retrieval for a valid date that is a Wednesday has ended,
\* while storage holds a Plan.
C13_Witness ==
    \E w \in Workers :
        /\ GetDone(w)
        /\ fromisoformat(req[w].week_start_date_str).ok
        /\ ~MondayText(req[w].week_start_date_str)
        /\ plans # {}

\* the JSON document of a reply text
DocOf(reply) == SelectSeq(reply.text, LAMBDA tok : tok.t = "json")[1].v

\* C21: a reply that is one JSON document satisfying the schema, bare or
\* inside surrounding fence markers, yields the plan of that document as it
\* was sent, every string inside the document intact.
C21_FencesOnlyAroundTheDocument ==
    oc.called /\ ReplyKind(oc.in) = "valid" =>
        /\ oc.out.ok
        /\ oc.out.plan = WeeklyPlanResponse(DocOf(oc.in))

\* C22: a generate request cancelled after its Plan insert and before its
\* last insert issues no delete and sends no response; its Plan row, every
\* Workout row it inserted and the segment rows of every segment insert it
\* made are in storage.
C22_CancelledRowsRemain ==
    \A w \in Workers :
        hist[w].cancelled =>
            /\ req[w].pc = "cancelled"
            /\ req[w].response = NoResponse
            /\ CallsOf(w, {"delete_plan"}) = {}
            /\ \E p \in plans : p.id = req[w].new_plan_id
            /\ hist[w].workout_ids \subseteq Ids(OwnWorkouts(w))
            /\ \A i \in CallsOf(w, {"insert_segments"}) :
                  SegmentsOf({hist[w].workout_seq[hist[w].calls[i].pos + 1]}) # {}

\* C22 witness: a request was cancelled after it inserted its Plan, two
\* Workouts and the segments of the first.
C22_Witness ==
    \E w \in Workers :
        /\ hist[w].cancelled
        /\ Cardinality(OwnWorkouts(w)) = 2
        /\ OwnSegments(w) # {}

\* C23: every plan document a retrieval returns with status 200 holds exactly
\* 7 workouts, also when the generate request that writes the plan is still
\* running in another server process.
C23_NoPartialPlanExposed ==
    \A w \in Workers :
        GetDone(w) /\ req[w].response = Retrieved =>
            Len(req[w].document.workouts) = WeekDays

\* a generate request that ended with an oracle error or a persistence error
FailedGeneration(w) ==
    /\ Done(w)
    /\ req[w].response.err \in {"OracleFormatError", "OracleSchemaError",
                                "OracleUnavailable", "PersistenceError"}

\* the existence check of a generate request for the same (user, week) that
\* comes next, its own read not failing
ResubmissionCheck(w) == ExistingPlanCheck(PlansOf(req[w].user, req[w].target), FALSE)

\* C24: after a generate request ended with an oracle or persistence error,
\* the existence check of a later generate request for the same (user, week)
\* does not reject it.
C24_ResubmissionPossible ==
    \A w \in Workers :
        FailedGeneration(w) => ResubmissionCheck(w) = NoResponse

\* C24 amended: the same, provided the failed request's compensating delete
\* did not fail; if the delete failed, the Plan row is still there and the
\* later request is rejected by the existence check.
C24_ResubmissionUnlessDeleteFailed ==
    \A w \in Workers :
        FailedGeneration(w) =>
            /\ ~hist[w].delete_failed => ResubmissionCheck(w) = NoResponse
            /\ hist[w].delete_failed =>
                  /\ OwnPlans(w) # {}
                  /\ ResubmissionCheck(w) = HTTPException(500, "ExistingPlanCheckError")

\* C24 witness: a request whose third Workout insert failed has deleted its
\* Plan and returned the persistence error.
C24_Witness ==
    \E w \in Workers :
        /\ FailedGeneration(w)
        /\ hist[w].deleted
        /\ Len(hist[w].workout_seq) = 2
        /\ PlansOf(req[w].user, req[w].target) = {}

\* C25: every row a generate request wrote carries the caller's user id, and
\* so do a Workout and its Plan, a segment and its Workout; the Plan rows an
\* existence check or a retrieval finds are the caller's rows of that week; a
\* retrieval returns a document only of a Plan of its caller and answers 404
\* exactly when the caller has no Plan of the week, whatever other users have.
C25_UserIsolation ==
    /\ \A w \in Workers :
          /\ \A p \in OwnPlans(w) : p.user_id = req[w].user
          /\ \A x \in OwnWorkouts(w) : x.user_id = req[w].user
          /\ \A sg \in OwnSegments(w) : sg.user_id = req[w].user
          /\ \A p \in plans :
                p.id \in hist[w].seen =>
                    /\ p.user_id = req[w].user
                    /\ p.week_start_date \in {req[w].target, req[w].week_start_date}
          /\ hist[w].found => hist[w].seen # {}
          /\ GetDone(w) /\ req[w].response = Retrieved =>
                /\ req[w].document.user_id = req[w].user
                /\ req[w].document.week_start_date = req[w].week_start_date
                /\ hist[w].seen = {req[w].document.plan_id}
          /\ GetDone(w) /\ req[w].response.code = 404 => hist[w].seen = {}
          /\ GetDone(w) /\ hist[w].calls # <<>> /\ ~hist[w].read_failed /\ hist[w].seen = {}
                => req[w].response.code = 404
    /\ \A x \in workouts : \A p \in plans : p.id = x.plan_id => p.user_id = x.user_id
    /\ \A sg \in segments : \A x \in workouts :
          x.id = sg.workout_id => x.user_id = sg.user_id

\* C25 witness: a retrieval has answered 404 while storage holds a Plan of
\* another user for the week it asked for.
C25_Witness ==
    \E w \in Workers :
        /\ GetDone(w)
        /\ req[w].response.code = 404
        /\ \E p \in plans :
              p.user_id # req[w].user /\ p.week_start_date = req[w].week_start_date

====
